---- MODULE Spec2Model ----
(***************************************************************************)
(* A model of matrix-shellbot (src/main.py): the output relay thread       *)
(* (shell_stdout_handler / stdout_to_messages / handle_escape_codes), the  *)
(* input router (on_message) and the connection supervisor (the retry loop *)
(* of run_bot).                                                            *)
(*                                                                         *)
(* A byte read from the pty is a record [v |-> value, p |-> position]: v   *)
(* is the byte's value (0..255) and p its position in the stream of bytes  *)
(* the relay has read (1, 2, 3, ...).  The code only ever looks at v; p is *)
(* carried along so that the order of delivery can be observed.  A decoded *)
(* character is [c |-> code point, p |-> position of its first byte].      *)
(***************************************************************************)
EXTENDS Integers, Sequences, FiniteSets, TLC

\* ------------------------------------------------------------------ sizes
\* The message size limit (1024 * 16 in the source), scaled down.
MAX_STDOUT_PER_MSG == 4
\* The size of one os.read (1024 in the source), scaled down.
READ_SIZE == 2
\* The shell writes at most this many bytes in a run of the model.
MaxBytes == 5
\* At most this many zero-length reads are followed in a run of the model.
MaxZeroReads == 1
\* The byte values the shell writes: newline, 'a', and the lead byte of a
\* two-byte UTF-8 sequence.
ShellBytes == {10, 97, 195}
\* A shell that writes only lines of 'a' writes at most this many bytes.
MaxBusyBytes == 8
\* The byte values such a shell writes: newline and 'a'.
LineBytes == {10, 97}
\* on_message handles at most this many events in a run of the model.
MaxEvents == 2
\* listen_forever fails at most this many times in a row in a run of the model.
MaxFailures == 2
\* handle_escape_codes is given texts of at most this many characters.
MaxText == 4
\* handle_escape_codes is applied at most this many times in a row.
MaxPasses == 2
\* The characters of those texts: ESC, '[', '1', ';', 'K', 'm' and newline.
TextChars == {27, 91, 49, 59, 75, 109, 10}
\* on_invite handles at most this many invitations in a run of the model.
MaxInvites == 2
\* The invite state of an invitation holds at most this many events.
MaxInviteEvents == 2
\* client.rooms is a subset of these.
Rooms == {"r1"}

NL == 10
CR == 13
ESC == 27
REPLACEMENT == 65533

VARIABLES
    buf,        \* shell_stdout_handler's buf: a list of byte strings
    decoder,    \* the bytes the incremental decoder has kept back
    relay,      \* the relay thread: "running", "done" (returned) or "crashed"
    stop,       \* the threading.Event of run_bot
    rooms,      \* client.rooms
    nread,      \* how many bytes have been read from the pty so far
    zeroReads,  \* how many reads have returned zero bytes so far
    call,       \* the last cycle's call of stdout_to_messages: its flush argument and what it decoded
    out,        \* the list stdout_to_messages returned in that call
    delivered,  \* the text bodies the last relay cycle sent to the rooms
    sentHigh,   \* the highest stream position sent to chat before the last cycle
    sup,        \* the main thread in run_bot's loop: "listen", "sleep", "exited", "aborted", "crashed"
    exitCode,   \* the exit status once the main thread has left run_bot, else -1
    lastExc,    \* the last exception the main thread met in the loop, or "none"
    failures,   \* how many times in a row listen_forever has failed with a transient error
    pinBuf,     \* what pin.write has buffered and pin.flush has not yet written
    pinOut,     \* the characters that have reached the shell's input
    lastEvent,  \* the last event on_message was called with
    lastWrite,  \* what that call wrote to the shell's input
    raised,     \* whether that call raised
    nEvents,    \* how many events on_message has handled
    filterIn,   \* a text handle_escape_codes is given
    passes,     \* what handle_escape_codes returned for it, and for what it returned
    lastInvite, \* the room id and state the last call of on_invite was given
    lastJoin,   \* the room id that call passed to client.join_room, or NoJoin
    inviteRaised, \* whether that call raised
    nInvites    \* how many invitations on_invite has handled

vars == <<buf, decoder, relay, stop, rooms, nread, zeroReads, call, out,
          delivered, sentHigh, sup, exitCode, lastExc, failures, pinBuf, pinOut, lastEvent, lastWrite,
          raised, nEvents, filterIn, passes, lastInvite, lastJoin,
          inviteRaised, nInvites>>

relayVars == <<buf, decoder, relay, rooms, nread, zeroReads, call, out,
               delivered, sentHigh>>
supVars == <<sup, exitCode, lastExc, failures>>
inputVars == <<pinBuf, pinOut, lastEvent, lastWrite, raised, nEvents>>
filterVars == <<filterIn, passes>>
inviteVars == <<lastInvite, lastJoin, inviteRaised, nInvites>>

\* ------------------------------------------------------------ sequences
RECURSIVE Join(_)
\* b''.join(chunks)
Join(chunks) ==
    IF chunks = <<>> THEN <<>> ELSE Head(chunks) \o Join(Tail(chunks))

RECURSIVE SumLen(_)
\* sum(len(s) for s in chunks)
SumLen(chunks) ==
    IF chunks = <<>> THEN 0 ELSE Len(Head(chunks)) + SumLen(Tail(chunks))

RECURSIVE RFind(_, _)
\* bytes.rfind of a one-byte needle: the highest index (from 1) of a byte of
\* value b in s, or 0 when there is none (Python: from 0, and -1).
RFind(s, b) ==
    IF s = <<>> THEN 0
    ELSE IF s[Len(s)].v = b THEN Len(s)
    ELSE RFind(SubSeq(s, 1, Len(s) - 1), b)

\* -------------------------------------------------------------- decoder
IsContinuation(b) == b.v >= 128 /\ b.v <= 191
IsLead2(b) == b.v >= 194 /\ b.v <= 223

RECURSIVE Utf8Decode(_)
\* codecs.utf_8_decode(data, 'replace', final=False) for bytes below 224:
\* the characters decoded and the incomplete tail that is kept back.
Utf8Decode(data) ==
    IF data = <<>> THEN [text |-> <<>>, pending |-> <<>>]
    ELSE LET b == Head(data) IN
         IF b.v < 128 THEN
             LET r == Utf8Decode(Tail(data)) IN
             [text |-> <<[c |-> b.v, p |-> b.p]>> \o r.text, pending |-> r.pending]
         ELSE IF IsLead2(b) THEN
             IF Len(data) = 1 THEN [text |-> <<>>, pending |-> data]
             ELSE IF IsContinuation(data[2]) THEN
                 LET r == Utf8Decode(Tail(Tail(data))) IN
                 [text |-> <<[c |-> (b.v - 192) * 64 + (data[2].v - 128), p |-> b.p]>>
                           \o r.text,
                  pending |-> r.pending]
             ELSE
                 LET r == Utf8Decode(Tail(data)) IN
                 [text |-> <<[c |-> REPLACEMENT, p |-> b.p]>> \o r.text,
                  pending |-> r.pending]
         ELSE
             LET r == Utf8Decode(Tail(data)) IN
             [text |-> <<[c |-> REPLACEMENT, p |-> b.p]>> \o r.text,
              pending |-> r.pending]

\* incremental_decoder.decode(input): decodes what was kept back followed by input
Decode(kept, input) == Utf8Decode(kept \o input)

\* ---------------------------------------------------- stdout_to_messages
\* FitsInMessage with < for <=
FitsStrictly(chunk, bytes_to_send) ==
    Len(chunk) + bytes_to_send < MAX_STDOUT_PER_MSG

\* The loop condition of line 113, for the chunk at the front of buf.
FitsInMessage(chunk, bytes_to_send) ==
    Len(chunk) + bytes_to_send <= MAX_STDOUT_PER_MSG

RECURSIVE TakeChunks(_, _, _)
\* The while loop of lines 113-115: pops chunks off the front of b into
\* stdout_to_send while the next one still fits.
TakeChunks(b, stdout_to_send, bytes_to_send) ==
    IF b # <<>> /\ FitsInMessage(Head(b), bytes_to_send)
    THEN TakeChunks(Tail(b), Append(stdout_to_send, Head(b)),
                    bytes_to_send + Len(Head(b)))
    ELSE [buf |-> b, stdout_to_send |-> stdout_to_send]

\* FlushAll without buf.clear()
FlushAllKeepsBuf(b, dec) ==
    LET total_stdout == Join(b)
        d == Decode(dec, total_stdout)
    IN  [buf |-> b, dec |-> d.pending, msgs |-> <<d.text>>,
         fed |-> <<total_stdout>>, branch |-> "flush"]

\* The flush branch, lines 105-108.
FlushAll(b, dec) ==
    LET total_stdout == Join(b)
        d == Decode(dec, total_stdout)
    IN  [buf |-> <<>>, dec |-> d.pending, msgs |-> <<d.text>>,
         fed |-> <<total_stdout>>, branch |-> "flush"]

\* SplitAtNewline with the newline kept at the end of the block
SplitKeepsNewline(rest, total_stdout, last_newline, dec) ==
    LET head == SubSeq(total_stdout, 1, last_newline)
        d == Decode(dec, head)
    IN  [buf |-> Append(rest, SubSeq(total_stdout, last_newline + 1,
                                     Len(total_stdout))),
         dec |-> d.pending, msgs |-> <<d.text>>, fed |-> <<head>>,
         branch |-> "newline"]

\* Lines 119-121: the text before the last newline is decoded and what
\* follows the newline is appended to what is left of buf.
SplitAtNewline(rest, total_stdout, last_newline, dec) ==
    LET head == SubSeq(total_stdout, 1, last_newline - 1)
        d == Decode(dec, head)
    IN  [buf |-> Append(rest, SubSeq(total_stdout, last_newline + 1,
                                     Len(total_stdout))),
         dec |-> d.pending, msgs |-> <<d.text>>, fed |-> <<head>>,
         branch |-> "newline"]

\* The size branch, lines 109-124.
SplitBySize(b, dec) ==
    LET t == TakeChunks(b, <<>>, 0)
        total_stdout == Join(t.stdout_to_send)
        last_newline == RFind(total_stdout, NL)
    IN  IF last_newline # 0
        THEN SplitAtNewline(t.buf, total_stdout, last_newline, dec)
        ELSE LET d == Decode(dec, total_stdout)
             IN  [buf |-> t.buf, dec |-> d.pending, msgs |-> <<d.text>>,
                  fed |-> <<total_stdout>>, branch |-> "one_line"]

\* stdout_to_messages(buf, incremental_decoder, flush): buf and the decoder as
\* the call leaves them, the list it returns (msgs), the byte strings it handed
\* to the decoder (fed) and the return statement it left by (branch).
stdout_to_messages(b, dec, flush) ==
    IF flush THEN FlushAll(b, dec)
    ELSE IF SumLen(b) > MAX_STDOUT_PER_MSG THEN SplitBySize(b, dec)
    ELSE [buf |-> b, dec |-> dec, msgs |-> <<>>, fed |-> <<>>, branch |-> "none"]

\* --------------------------------------------------- handle_escape_codes
IsDigit(c) == c >= 48 /\ c <= 57
\* \w of a str pattern: letters, digits and the underscore (Latin-1 letters
\* included; U+FFFD is no word character)
IsWord(c) ==
    \/ IsDigit(c)
    \/ c >= 65 /\ c <= 90
    \/ c >= 97 /\ c <= 122
    \/ c = 95
    \/ c >= 192 /\ c <= 255 /\ c # 215 /\ c # 247
\* [\d;]
IsParam(c) == IsDigit(c) \/ c = 59

\* The index of the first newline of text, or Len(text) + 1.
LineEnd(text) ==
    IF \E i \in 1..Len(text) : text[i].c = NL
    THEN CHOOSE i \in 1..Len(text) :
             text[i].c = NL /\ \A j \in 1..(i - 1) : text[j].c # NL
    ELSE Len(text) + 1

\* cleared_line_parser ([^\n]*\x1b\[K) matched at the start of text: the index
\* of the last character of the match, or 0 when it does not match there.
ClearedLineMatchEnd(text) ==
    LET n == LineEnd(text)
        K == {j \in 1..(n - 3) :
                 text[j].c = ESC /\ text[j + 1].c = 91 /\ text[j + 2].c = 75}
    IN  IF K = {} THEN 0
        ELSE (CHOOSE j \in K : \A k \in K : k <= j) + 2

RECURSIVE SubClearedLines(_)
\* re.sub(cleared_line_parser, "", text)
SubClearedLines(text) ==
    IF text = <<>> THEN <<>>
    ELSE LET e == ClearedLineMatchEnd(text) IN
         IF e > 0 THEN SubClearedLines(SubSeq(text, e + 1, Len(text)))
         ELSE <<Head(text)>> \o SubClearedLines(Tail(text))

\* escape_parser (\x1b\[?([\d;]*)(\w)) matched at the start of text: the index
\* of the last character of the match, or 0.  [\d;]* is greedy and gives
\* characters back until one of them, a digit, can stand for \w.
EscapeMatchEnd(text) ==
    IF text = <<>> \/ text[1].c # ESC THEN 0
    ELSE LET j == IF Len(text) >= 2 /\ text[2].c = 91 THEN 3 ELSE 2
             NonParam == {i \in j..Len(text) : ~IsParam(text[i].c)}
             k == IF NonParam = {} THEN Len(text) + 1
                  ELSE CHOOSE i \in NonParam : \A m \in NonParam : i <= m
             Digits == {i \in j..(k - 1) : IsDigit(text[i].c)}
         IN  IF k <= Len(text) /\ IsWord(text[k].c) THEN k
             ELSE IF Digits # {} THEN CHOOSE i \in Digits : \A m \in Digits : m <= i
             ELSE 0

RECURSIVE SubEscapes(_)
\* re.sub(escape_parser, "", text)
SubEscapes(text) ==
    IF text = <<>> THEN <<>>
    ELSE LET e == EscapeMatchEnd(text) IN
         IF e > 0 THEN SubEscapes(SubSeq(text, e + 1, Len(text)))
         ELSE <<Head(text)>> \o SubEscapes(Tail(text))

\* handle_escape_codes(shell_out)
handle_escape_codes(shell_out) == SubEscapes(SubClearedLines(shell_out))

\* text.replace('\r', '')
StripCR(text) == SelectSeq(text, LAMBDA ch : ch.c # CR)

\* Lines 152-153: the body of the message sent for one block.
MessageBody(shell_out) == StripCR(handle_escape_codes(shell_out))

\* ------------------------------------------------- shell_stdout_handler
Max(S) == CHOOSE x \in S : \A y \in S : y <= x

\* The stream positions of the characters of a list of texts.
Positions(texts) ==
    UNION {{texts[i][j].p : j \in 1..Len(texts[i])} : i \in 1..Len(texts)}

NoCall == [called |-> FALSE]

\* A Python value with its type: a bytes object and a str are never equal.
PyBytes(s) == [type |-> "bytes", val |-> s]
PyStr(s) == [type |-> "str", val |-> s]

\* shell_stdout == '' (line 145), for the bytes object os.read returned
IsEndOfStream(shell_stdout) == PyBytes(shell_stdout) = PyStr(<<>>)

\* The byte strings of 1 to READ_SIZE bytes over values that take the next
\* positions of the stream, as long as the stream has at most limit bytes.
ReadResultsOf(values, limit) ==
    UNION {{[i \in 1..n |-> [v |-> vs[i], p |-> nread + i]] : vs \in [1..n -> values]} :
              n \in {m \in 1..READ_SIZE : nread + m <= limit}}

\* What os.read(master, 1024) can return while the shell is alive: 1 to
\* READ_SIZE bytes, which take the next positions of the stream.
ReadResults == ReadResultsOf(ShellBytes, MaxBytes)

\* Deliver without the test of client.rooms
DeliverToNoRoom(b, shell_has_more) ==
    /\ sentHigh' = Max({sentHigh} \cup Positions(delivered))
    /\ IF b # <<>>
       THEN LET r == stdout_to_messages(b, decoder, ~shell_has_more) IN
            /\ buf' = r.buf
            /\ decoder' = r.dec
            /\ out' = r.msgs
            /\ call' = [called |-> TRUE, flush |-> ~shell_has_more, fed |-> r.fed,
                        branch |-> r.branch]
            /\ delivered' = [i \in 1..Len(r.msgs) |-> MessageBody(r.msgs[i])]
       ELSE /\ buf' = b
            /\ call' = NoCall
            /\ out' = <<>>
            /\ delivered' = <<>>
            /\ UNCHANGED decoder

\* Lines 148-156 of one cycle, b being buf after the read: when there is
\* something buffered and a room to send to, stdout_to_messages is called and
\* every block it returns is filtered and sent to every room.
Deliver(b, shell_has_more) ==
    /\ sentHigh' = Max({sentHigh} \cup Positions(delivered))
    /\ IF b # <<>> /\ rooms # {}
       THEN LET r == stdout_to_messages(b, decoder, ~shell_has_more) IN
            /\ buf' = r.buf
            /\ decoder' = r.dec
            /\ out' = r.msgs
            /\ call' = [called |-> TRUE, flush |-> ~shell_has_more, fed |-> r.fed,
                        branch |-> r.branch]
            /\ delivered' = [i \in 1..Len(r.msgs) |-> MessageBody(r.msgs[i])]
       ELSE /\ buf' = b
            /\ call' = NoCall
            /\ out' = <<>>
            /\ delivered' = <<>>
            /\ UNCHANGED decoder

\* shell_stdout_handler is left, by a return or by an exception: its locals
\* (buf, decoder, and the blocks of the last cycle) are gone.
ThreadEnds(how) ==
    /\ relay' = how
    /\ buf' = <<>>
    /\ decoder' = <<>>
    /\ call' = NoCall
    /\ out' = <<>>
    /\ delivered' = <<>>
    /\ UNCHANGED sentHigh

\* RelayIdle without the test of stop
RelayIdleIgnoresStop ==
    /\ relay = "running"
    /\ zeroReads = 0
    /\ Deliver(buf, FALSE)
    /\ UNCHANGED <<relay, stop, rooms, nread, zeroReads, supVars, inputVars, filterVars, inviteVars>>

\* One cycle in which select times out (lines 141-143, 148-156).
RelayIdle ==
    /\ relay = "running" /\ ~stop
    /\ zeroReads = 0
    /\ Deliver(buf, FALSE)
    /\ UNCHANGED <<relay, stop, rooms, nread, zeroReads, supVars, inputVars, filterVars, inviteVars>>

\* One cycle in which the pty is readable and os.read returns shell_stdout
\* (lines 141-156).
RelayCycleWith(shell_stdout) ==
    IF IsEndOfStream(shell_stdout)
    THEN ThreadEnds("done")
    ELSE /\ Deliver(Append(buf, shell_stdout), TRUE)
         /\ UNCHANGED relay

\* A cycle that reads data.
RelayRead ==
    /\ relay = "running" /\ ~stop
    /\ zeroReads = 0
    /\ \E shell_stdout \in ReadResults :
        /\ RelayCycleWith(shell_stdout)
        /\ nread' = nread + Len(shell_stdout)
    /\ UNCHANGED <<stop, rooms, zeroReads, supVars, inputVars, filterVars, inviteVars>>

\* A cycle that reads data of a shell that writes lines of 'a' only, and more
\* of them.
RelayReadLines ==
    /\ relay = "running" /\ ~stop
    /\ zeroReads = 0
    /\ \E shell_stdout \in ReadResultsOf(LineBytes, MaxBusyBytes) :
        /\ RelayCycleWith(shell_stdout)
        /\ nread' = nread + Len(shell_stdout)
    /\ UNCHANGED <<stop, rooms, zeroReads, supVars, inputVars, filterVars, inviteVars>>

\* A cycle whose read returns zero bytes: the other end of the pty is closed.
\* From then on the pty stays readable and every read returns zero bytes.
RelayReadEmpty ==
    /\ relay = "running" /\ ~stop
    /\ zeroReads < MaxZeroReads
    /\ RelayCycleWith(<<>>)
    /\ zeroReads' = zeroReads + 1
    /\ UNCHANGED <<stop, rooms, nread, supVars, inputVars, filterVars, inviteVars>>

\* A cycle whose os.read raises (OSError): the exception ends the thread.
RelayReadError ==
    /\ relay = "running" /\ ~stop
    /\ ThreadEnds("crashed")
    /\ UNCHANGED <<stop, rooms, nread, zeroReads, supVars, inputVars, filterVars, inviteVars>>

\* while not stop.is_set() (line 141) finds the event set: the function returns.
RelayStop ==
    /\ relay = "running" /\ stop
    /\ ThreadEnds("done")
    /\ UNCHANGED <<stop, rooms, nread, zeroReads, supVars, inputVars, filterVars, inviteVars>>

\* The listening thread joins a room (on_invite, line 83).
JoinRoom ==
    /\ sup = "listen"
    /\ \E r \in Rooms \ rooms : rooms' = rooms \cup {r}
    /\ UNCHANGED <<buf, decoder, relay, stop, nread, zeroReads, call, out,
                   delivered, sentHigh, supVars, inputVars, filterVars, inviteVars>>

\* The listening thread's sync drops a room the bot has left.
LeaveRoom ==
    /\ sup = "listen"
    /\ \E r \in rooms : rooms' = rooms \ {r}
    /\ UNCHANGED <<buf, decoder, relay, stop, nread, zeroReads, call, out,
                   delivered, sentHigh, supVars, inputVars, filterVars, inviteVars>>

\* ------------------------------------------------------- run_bot's loop
Retrying(s) == s \in {"timeout_sleep", "disconnect_sleep"}

\* except KeyboardInterrupt (lines 194-196)
OnKeyboardInterrupt ==
    /\ stop' = TRUE
    /\ sup' = "exited"
    /\ exitCode' = 0

\* except requests.exceptions.Timeout (lines 197-199), up to the sleep
OnTimeout ==
    /\ sup' = "timeout_sleep"
    /\ UNCHANGED <<stop, exitCode>>

\* OnConnectionError without the except clause: the error leaves run_bot
OnConnectionErrorFatal ==
    /\ sup' = "crashed"
    /\ exitCode' = 1
    /\ UNCHANGED stop

\* except requests.exceptions.ConnectionError (lines 200-203), up to the sleep
OnConnectionError ==
    /\ sup' = "disconnect_sleep"
    /\ UNCHANGED <<stop, exitCode>>

\* No except clause of lines 194-203 takes the exception: it leaves run_bot
\* and the main thread ends with a nonzero status.
Uncaught ==
    /\ exitCode' = 1
    /\ UNCHANGED stop

\* client.listen_forever() is interrupted by the user (SIGINT).
ListenInterrupted ==
    /\ sup = "listen"
    /\ lastExc' = "KeyboardInterrupt"
    /\ OnKeyboardInterrupt
    /\ UNCHANGED <<failures, relayVars, inputVars, filterVars, inviteVars>>

\* client.listen_forever() raises requests.exceptions.Timeout.
ListenTimeout ==
    /\ sup = "listen"
    /\ failures < MaxFailures
    /\ lastExc' = "Timeout"
    /\ failures' = failures + 1
    /\ OnTimeout
    /\ UNCHANGED <<relayVars, inputVars, filterVars, inviteVars>>

\* client.listen_forever() raises requests.exceptions.ConnectionError.
ListenConnectionError ==
    /\ sup = "listen"
    /\ failures < MaxFailures
    /\ lastExc' = "ConnectionError"
    /\ failures' = failures + 1
    /\ OnConnectionError
    /\ UNCHANGED <<relayVars, inputVars, filterVars, inviteVars>>

\* client.listen_forever() raises anything else.
ListenOtherError ==
    /\ sup = "listen"
    /\ lastExc' = "Other"
    /\ sup' = "crashed"
    /\ Uncaught
    /\ UNCHANGED <<failures, relayVars, inputVars, filterVars, inviteVars>>

\* time.sleep(5) returns and the loop calls listen_forever again.
SleepDone ==
    /\ Retrying(sup)
    /\ sup' = "listen"
    /\ UNCHANGED <<stop, exitCode, lastExc, failures, relayVars, inputVars, filterVars, inviteVars>>

\* The user interrupts time.sleep(5) (lines 199, 203).  The sleep is in an
\* except clause, outside the try block: line 194 does not take the
\* KeyboardInterrupt.
SleepInterrupted ==
    /\ Retrying(sup)
    /\ lastExc' = "KeyboardInterrupt"
    /\ sup' = "aborted"
    /\ Uncaught
    /\ UNCHANGED <<failures, relayVars, inputVars, filterVars, inviteVars>>

\* ----------------------------------------------------------- on_message
\* --authorize (line 162)
AllowedUsers == {"@matthew:vgd.me"}
Senders == AllowedUsers \cup {"@mallory:example.org"}

\* str.lower of one character (re.I on ASCII letters)
Lower(c) == IF c >= 65 /\ c <= 90 THEN c + 32 ELSE c

\* The alternatives of CTRLC_CMD_REGEX (line 17): "!ctrl+c", "!ctrlc",
\* "!shell ctrlc", "!shell ctrl+c"
CtrlCLiterals ==
    {<<33, 99, 116, 114, 108, 43, 99>>,
     <<33, 99, 116, 114, 108, 99>>,
     <<33, 115, 104, 101, 108, 108, 32, 99, 116, 114, 108, 99>>,
     <<33, 115, 104, 101, 108, 108, 32, 99, 116, 114, 108, 43, 99>>}

\* The literal head of SHELL_CMD_REGEX (line 16): "!shell "
ShellPrefix == <<33, 115, 104, 101, 108, 108, 32>>

\* MatchesLiteral without re.I
MatchesLiteralExactCase(message, lit) ==
    /\ Len(message) >= Len(lit)
    /\ \A i \in 1..Len(lit) : message[i] = lit[i]

\* A literal of a pattern matched at the start of message under re.I
MatchesLiteral(message, lit) ==
    /\ Len(message) >= Len(lit)
    /\ \A i \in 1..Len(lit) : Lower(message[i]) = Lower(lit[i])

\* re.match(CTRLC_CMD_REGEX, message, flags=re.I) (line 55)
MatchCtrlC(message) == \E lit \in CtrlCLiterals : MatchesLiteral(message, lit)

\* re.match(SHELL_CMD_REGEX, message, flags=re.I) (line 60)
MatchShell(message) == MatchesLiteral(message, ShellPrefix)

\* cmd_match.group(1) (line 62): (.*) takes what follows the prefix up to the
\* first line break, which . does not match.
Group1(message) ==
    LET rest == SubSeq(message, Len(ShellPrefix) + 1, Len(message))
        brk == {i \in 1..Len(rest) : rest[i] = NL}
    IN  IF brk = {} THEN rest
        ELSE SubSeq(rest, 1, (CHOOSE i \in brk : \A j \in brk : i <= j) - 1)

\* Authorized without the sender's check
AuthorizedAnySender(event) ==
    /\ "msgtype" \in DOMAIN event.content
    /\ event.content.msgtype = "m.text"

\* The condition of lines 51-53.
Authorized(event) ==
    /\ event.sender \in AllowedUsers
    /\ "msgtype" \in DOMAIN event.content
    /\ event.content.msgtype = "m.text"

\* pin.write(text): the file object buffers the text
PinWrite(f, text) == [f EXCEPT !.buf = @ \o text]
\* PinFlush that leaves the buffer as it is
PinFlushKeepsBuf(f) == [buf |-> f.buf, out |-> f.out \o f.buf]
\* pin.flush(): what is buffered reaches the pty
PinFlush(f) == [buf |-> <<>>, out |-> f.out \o f.buf]

\* Lines 55-58
SendCtrlC(f) == PinFlush(PinWrite(f, <<3>>))
\* SendCommand without pin.write('\n')
SendCommandNoNewline(f, message) == PinFlush(PinWrite(f, message))

\* Lines 62-66
SendCommand(f, message) == PinFlush(PinWrite(PinWrite(f, message), <<NL>>))

\* The bodies of the events of the model.
Bodies ==
    {\* "!ctrlc"
     <<33, 99, 116, 114, 108, 99>>,
     \* "!CTRL+C"
     <<33, 67, 84, 82, 76, 43, 67>>,
     \* "!shell ctrlc"
     <<33, 115, 104, 101, 108, 108, 32, 99, 116, 114, 108, 99>>,
     \* "!Shell Ctrl+C"
     <<33, 83, 104, 101, 108, 108, 32, 67, 116, 114, 108, 43, 67>>,
     \* "!ctrlc now"
     <<33, 99, 116, 114, 108, 99, 32, 110, 111, 119>>,
     \* "x!ctrlc"
     <<120, 33, 99, 116, 114, 108, 99>>,
     \* "!ctrl c"
     <<33, 99, 116, 114, 108, 32, 99>>,
     \* "!shell ls"
     <<33, 115, 104, 101, 108, 108, 32, 108, 115>>,
     \* "!SHELL ls"
     <<33, 83, 72, 69, 76, 76, 32, 108, 115>>,
     \* "!shell "
     <<33, 115, 104, 101, 108, 108, 32>>,
     \* "!shell"
     <<33, 115, 104, 101, 108, 108>>,
     \* "ls"
     <<108, 115>>,
     \* "!shell a\nb"
     <<33, 115, 104, 101, 108, 108, 32, 97, 10, 98>>}

\* event['content'] of the events of the model: text messages, messages of
\* another msgtype, and contents that lack msgtype or body.
Contents ==
    {[msgtype |-> "m.text", body |-> b] : b \in Bodies}
    \cup {[msgtype |-> "m.image", body |-> b] : b \in Bodies}
    \cup {[body |-> b] : b \in Bodies}
    \cup {[msgtype |-> "m.text"], <<>>}

Events == [sender : Senders, content : Contents]

\* on_message(event, pin, allowed_users), called by listen_forever in the
\* main thread.  event['content']['body'] raises KeyError when there is no body.
OnMessage ==
    /\ sup = "listen"
    /\ nEvents < MaxEvents
    /\ \E event \in Events :
        LET f == [buf |-> pinBuf, out |-> pinOut]
            g == IF ~Authorized(event) \/ "body" \notin DOMAIN event.content THEN f
                 ELSE IF MatchCtrlC(event.content.body) THEN SendCtrlC(f)
                 ELSE IF MatchShell(event.content.body)
                      THEN SendCommand(f, Group1(event.content.body))
                 ELSE f
        IN  /\ lastEvent' = event
            /\ raised' = (Authorized(event) /\ "body" \notin DOMAIN event.content)
            /\ pinBuf' = g.buf
            /\ pinOut' = g.out
            /\ lastWrite' = SubSeq(g.out, Len(pinOut) + 1, Len(g.out))
    /\ nEvents' = nEvents + 1
    /\ failures' = 0
    /\ UNCHANGED <<stop, sup, exitCode, lastExc, relayVars, filterVars, inviteVars>>

\* ------------------------------------------------------------ on_invite
\* client.user_id
Bot == "@shellbot:example.org"
\* Python's None, and the KeyError a lookup of a missing key raises
PyNone == "None"
PyKeyError == "KeyError"
\* on_invite did not call client.join_room
NoJoin == "NoJoin"

\* The events of an invite state: membership events, of the bot or of another
\* user, invitations or not, sent by an allowed user or by another one, and
\* events of another type, whose content has no membership.
InviteEvents ==
    [type : {"m.room.member"}, content : [membership : {"invite", "join"}],
     state_key : {Bot, "@carol:example.org"}, sender : Senders]
    \cup [type : {"m.room.name"}, content : [name : {"lobby"}],
          state_key : {""}, sender : Senders]

InviteStates ==
    UNION {[1..n -> InviteEvents] : n \in 0..MaxInviteEvents}

RECURSIVE GetInviterAnyInvitee(_, _)
\* get_inviter without the test of state_key
GetInviterAnyInvitee(events, user_id) ==
    IF events = <<>> THEN PyNone
    ELSE LET event == Head(events) IN
         IF event.type # "m.room.member"
         THEN GetInviterAnyInvitee(Tail(events), user_id)
         ELSE IF "membership" \notin DOMAIN event.content THEN PyKeyError
         ELSE IF event.content.membership # "invite"
         THEN GetInviterAnyInvitee(Tail(events), user_id)
         ELSE event.sender

RECURSIVE get_inviter(_, _)
\* get_inviter(invite_state, user_id) (lines 69-75), events being
\* invite_state['events']: the sender of the first invitation of user_id, None
\* when the loop ends without one.  `and` evaluates its right side only when
\* the left side is true.
get_inviter(events, user_id) ==
    IF events = <<>> THEN PyNone
    ELSE LET event == Head(events) IN
         IF event.type # "m.room.member"
         THEN get_inviter(Tail(events), user_id)
         ELSE IF "membership" \notin DOMAIN event.content THEN PyKeyError
         ELSE IF event.content.membership # "invite"
         THEN get_inviter(Tail(events), user_id)
         ELSE IF "state_key" \notin DOMAIN event THEN PyKeyError
         ELSE IF event.state_key = user_id THEN event.sender
         ELSE get_inviter(Tail(events), user_id)

\* on_invite(client, room_id, state, allowed_users) (lines 78-83), called by
\* the listening thread.  allowed_users is a tuple: None is no member of it.
OnInvite ==
    /\ sup = "listen"
    /\ nInvites < MaxInvites
    /\ \E room_id \in Rooms, events \in InviteStates :
        LET inviter == get_inviter(events, Bot) IN
        /\ lastInvite' = [room_id |-> room_id, events |-> events]
        /\ inviteRaised' = (inviter = PyKeyError)
        /\ IF inviter # PyKeyError /\ inviter \in AllowedUsers
           THEN /\ rooms' = rooms \cup {room_id}
                /\ lastJoin' = room_id
           ELSE /\ rooms' = rooms
                /\ lastJoin' = NoJoin
    /\ nInvites' = nInvites + 1
    /\ failures' = 0
    /\ UNCHANGED <<buf, decoder, relay, stop, nread, zeroReads, call, out,
                   delivered, sentHigh, sup, exitCode, lastExc, inputVars,
                   filterVars>>

NoEvent == [none |-> TRUE]

Init ==
    /\ buf = <<>>
    /\ decoder = <<>>
    /\ relay = "running"
    /\ stop = FALSE
    /\ rooms \in SUBSET Rooms
    /\ nread = 0
    /\ zeroReads = 0
    /\ call = NoCall
    /\ out = <<>>
    /\ delivered = <<>>
    /\ sentHigh = 0
    /\ sup = "listen"
    /\ exitCode = -1
    /\ lastExc = "none"
    /\ failures = 0
    /\ pinBuf = <<>>
    /\ pinOut = <<>>
    /\ lastEvent = NoEvent
    /\ lastWrite = <<>>
    /\ raised = FALSE
    /\ nEvents = 0
    /\ lastInvite = NoEvent
    /\ lastJoin = NoJoin
    /\ inviteRaised = FALSE
    /\ nInvites = 0
    /\ filterIn = <<>>
    /\ passes = <<>>

\* The relay thread, with what the main thread does to it: it sets stop and
\* changes client.rooms.
NextRelay ==
    \/ RelayIdle
    \/ RelayRead
    \/ RelayReadEmpty
    \/ RelayReadError
    \/ RelayStop
    \/ JoinRoom
    \/ LeaveRoom
    \/ ListenInterrupted

SpecRelay == Init /\ [][NextRelay]_vars

\* The relay thread is scheduled: once stop is set, the test of line 141 is
\* reached and finds it set.
SpecRelayFair == SpecRelay /\ WF_vars(RelayStop)

\* The main thread: the loop of run_bot and the handlers listen_forever calls.
NextMain ==
    \/ OnMessage
    \/ JoinRoom
    \/ LeaveRoom
    \/ ListenInterrupted
    \/ ListenTimeout
    \/ ListenConnectionError
    \/ ListenOtherError
    \/ SleepDone
    \/ SleepInterrupted

SpecMain == Init /\ [][NextMain]_vars

\* time.sleep(5) returns after five seconds unless it is interrupted.
SpecMainFair == SpecMain /\ WF_vars(SleepDone)

\* ------------------------------------------- both threads of the process
\* run_bot after line 189: the main thread in its loop (lines 191-203) next to
\* the thread of shell_stdout_handler, the shell being alive.  The thread is
\* not a daemon (line 187): the process lasts until both have ended.
NextProc ==
    \/ RelayIdle
    \/ RelayRead
    \/ RelayReadError
    \/ RelayStop
    \/ ListenInterrupted
    \/ ListenTimeout
    \/ ListenConnectionError
    \/ ListenOtherError
    \/ SleepDone
    \/ SleepInterrupted

SpecProc == Init /\ [][NextProc]_vars

\* The relay thread is scheduled: an idle cycle that has something to send
\* sends it (lines 148-156), and a set stop event is seen by the next test of
\* line 141.  time.sleep(5) returns unless it is interrupted.  Nothing obliges
\* the shell to write, listen_forever to raise or os.read to fail.
SpecProcFair ==
    SpecProc /\ WF_vars(RelayIdle) /\ WF_vars(RelayStop) /\ WF_vars(SleepDone)

\* --------------------------------------- stdout_to_messages on its own
\* buf.append(chunk) (line 147), for any chunk a read can return: data, or
\* zero bytes once the pty is at its end.
EvalAppend ==
    /\ \E chunk \in {c \in ReadResults : zeroReads = 0}
                     \cup {e \in {<<>>} : zeroReads < MaxZeroReads} :
        /\ buf' = Append(buf, chunk)
        /\ nread' = nread + Len(chunk)
        /\ zeroReads' = IF chunk = <<>> THEN zeroReads + 1 ELSE zeroReads
    /\ call' = NoCall
    /\ out' = <<>>
    /\ UNCHANGED <<decoder, relay, stop, rooms, delivered, sentHigh, supVars, inputVars, filterVars, inviteVars>>

\* stdout_to_messages(buf, decoder, flush) for either value of flush.
Evaluate ==
    /\ \E flush \in BOOLEAN :
        LET r == stdout_to_messages(buf, decoder, flush) IN
        /\ buf' = r.buf
        /\ decoder' = r.dec
        /\ out' = r.msgs
        /\ call' = [called |-> TRUE, flush |-> flush, fed |-> r.fed,
                    branch |-> r.branch]
    /\ UNCHANGED <<relay, stop, rooms, nread, zeroReads, delivered, sentHigh, supVars,
                   inputVars, filterVars, inviteVars>>

NextEval == EvalAppend \/ Evaluate

SpecEval == Init /\ [][NextEval]_vars

\* ------------------------------------------- the relay of a busy shell
\* The relay thread alone, the rooms being what they were at the start, with a
\* shell that writes lines of 'a'.
NextBusy ==
    \/ RelayReadLines
    \/ RelayIdle

SpecBusy == Init /\ [][NextBusy]_vars

\* ------------------------------- on_message next to the relay thread
\* The listening thread handling messages while the relay thread cycles on a
\* shell that writes nothing more: both threads hold the pty's descriptor
\* (lines 172, 187-189).
NextInput ==
    \/ OnMessage
    \/ ListenInterrupted
    \/ RelayIdle
    \/ RelayReadEmpty
    \/ RelayReadError
    \/ RelayStop

SpecInput == Init /\ [][NextInput]_vars

\* ------------------------------------------------- invitations alone
\* The listening thread handling invitations, and rooms the bot is removed from.
NextInvite ==
    \/ OnInvite
    \/ LeaveRoom

SpecInvite == Init /\ [][NextInvite]_vars

\* --------------------------------------- handle_escape_codes on its own
\* The texts of at most MaxText characters over TextChars, every character
\* with its index as its position.
Texts ==
    UNION {{[i \in 1..n |-> [c |-> cs[i], p |-> i]] : cs \in [1..n -> TextChars]} :
              n \in 0..MaxText}

\* The state before handle_escape_codes is given a text of Texts.
InitFilter ==
    /\ filterIn \in Texts
    /\ passes = <<>>
    /\ buf = <<>>
    /\ decoder = <<>>
    /\ relay = "running"
    /\ stop = FALSE
    /\ rooms = {}
    /\ nread = 0
    /\ zeroReads = 0
    /\ call = NoCall
    /\ out = <<>>
    /\ delivered = <<>>
    /\ sentHigh = 0
    /\ sup = "listen"
    /\ exitCode = -1
    /\ lastExc = "none"
    /\ failures = 0
    /\ pinBuf = <<>>
    /\ pinOut = <<>>
    /\ lastEvent = NoEvent
    /\ lastWrite = <<>>
    /\ raised = FALSE
    /\ nEvents = 0
    /\ lastInvite = NoEvent
    /\ lastJoin = NoJoin
    /\ inviteRaised = FALSE
    /\ nInvites = 0

\* handle_escape_codes applied to filterIn, and then to what it returned.
Strip ==
    /\ Len(passes) < MaxPasses
    /\ passes' = Append(passes, handle_escape_codes(IF passes = <<>> THEN filterIn
                                                    ELSE passes[Len(passes)]))
    /\ UNCHANGED <<filterIn, stop, relayVars, supVars, inputVars, inviteVars>>

NextFilter == Strip

SpecFilter == InitFilter /\ [][NextFilter]_vars

\* ================================================================ claims
\* The characters of a list of texts, in the order they are sent.
SentChars == Join(delivered)

\* C1: the relay delivers bytes in the order it read them: the stream
\* positions of the characters a cycle sends are increasing, and all of them
\* come after everything sent in earlier cycles.
C1_OrderPreserved ==
    /\ \A i \in 1..Len(SentChars) : SentChars[i].p > sentHigh
    /\ \A i, j \in 1..Len(SentChars) : i < j => SentChars[i].p < SentChars[j].p

\* The number of chunks at the front of b that the size branch consumes: the
\* longest prefix of whole chunks whose sizes sum to at most the limit.
SpanCount(b) ==
    Max({n \in 0..Len(b) : SumLen(SubSeq(b, 1, n)) <= MAX_STDOUT_PER_MSG})

\* The bytes of the chunks of b, in order, found by index rather than by
\* concatenation: chunk i starts after the bytes of chunks 1..i-1.
Flat(b) ==
    [k \in 1..SumLen(b) |->
        LET i == CHOOSE i \in 1..Len(b) :
                     /\ SumLen(SubSeq(b, 1, i - 1)) < k
                     /\ k <= SumLen(SubSeq(b, 1, i))
        IN  b[i][k - SumLen(SubSeq(b, 1, i - 1))]]

\* The consumed front span of b and what is left behind it.
Span(b) == Flat(SubSeq(b, 1, SpanCount(b)))
Unconsumed(b) == SubSeq(b, SpanCount(b) + 1, Len(b))
NewlinesOf(s) == {i \in 1..Len(s) : s[i].v = NL}

\* A step that calls stdout_to_messages with flush = False on a buffer over
\* the limit.
SizeSplitStep == call'.called /\ ~call'.flush /\ SumLen(buf) > MAX_STDOUT_PER_MSG

\* s with its element at index i left out
Without(s, i) == SubSeq(s, 1, i - 1) \o SubSeq(s, i + 1, Len(s))

C3_FlushDrains ==
    [][(call'.called /\ call'.flush) =>
        /\ Len(out') = 1
        /\ call'.fed = <<Flat(buf)>>
        /\ out'[1] = Utf8Decode(decoder \o Flat(buf)).text
        /\ buf' = <<>>]_vars

\* C3's case has happened: a flush of more bytes than one read returns.
C3_Witness ==
    /\ call.called /\ call.flush
    /\ Len(call.fed[1]) > READ_SIZE
    /\ Len(out) = 1
    /\ buf = <<>>

\* C4: for a buffer over the limit whose consumed front span has no newline,
\* evaluate(flush=false) returns one block, the decoding of the whole span;
\* the consumed chunks are removed and the others stay as they are.
C4_OneLineSpan ==
    [][(SizeSplitStep /\ NewlinesOf(Span(buf)) = {}) =>
        /\ Len(out') = 1
        /\ call'.fed = <<Span(buf)>>
        /\ out'[1] = Utf8Decode(decoder \o Span(buf)).text
        /\ buf' = Unconsumed(buf)
        /\ buf' # <<>>]_vars

\* C4's case has happened: a span of exactly the limit went out as one block
\* and a chunk stayed behind.
C4_Witness ==
    /\ call.called /\ call.branch = "one_line"
    /\ Len(call.fed[1]) = MAX_STDOUT_PER_MSG
    /\ Len(out) = 1 /\ Len(out[1]) = MAX_STDOUT_PER_MSG
    /\ buf # <<>>

\* C10: after a read of zero bytes the relay has returned, and the empty
\* chunk is not in buf.
C10_EmptyReadEndsRelay ==
    zeroReads > 0 =>
        /\ relay = "done"
        /\ \A i \in 1..Len(buf) : buf[i] # <<>>

\* A step in which on_message handles an event, which lastEvent' then is.
HandlesEvent == nEvents' = nEvents + 1

\* C5: an event whose sender is not allowed, or that is no plain-text
\* message, leaves the shell's input as it was, and handling it raises nothing.
C5_IgnoresUnauthorized ==
    [][(HandlesEvent /\ (\/ lastEvent'.sender \notin AllowedUsers
                         \/ "msgtype" \notin DOMAIN lastEvent'.content
                         \/ lastEvent'.content.msgtype # "m.text")) =>
        /\ pinOut' = pinOut
        /\ pinBuf' = pinBuf
        /\ lastWrite' = <<>>
        /\ ~raised']_vars

\* C5's case has happened: a shell command from a sender who is not allowed
\* was handled after a command that was written.
C5_Witness ==
    /\ nEvents > 0
    /\ lastEvent.sender \notin AllowedUsers
    /\ lastEvent.content = [msgtype |-> "m.text", body |-> <<33, 115, 104, 101, 108, 108, 32, 108, 115>>]
    /\ lastWrite = <<>>
    /\ pinOut # <<>>

\* A plain-text message with a body from an allowed sender.
TextFromAllowed(e) ==
    /\ e.sender \in AllowedUsers
    /\ "msgtype" \in DOMAIN e.content
    /\ e.content.msgtype = "m.text"
    /\ "body" \in DOMAIN e.content

\* message begins with lit, letter case ignored
BeginsWith(message, lit) ==
    /\ Len(message) >= Len(lit)
    /\ [i \in 1..Len(lit) |-> Lower(message[i])] = [i \in 1..Len(lit) |-> Lower(lit[i])]

\* The ctrl-c control form and the shell-command form of a message.
CtrlCForm(message) == \E lit \in CtrlCLiterals : BeginsWith(message, lit)
ShellForm(message) == BeginsWith(message, ShellPrefix)

\* The command of a message of the shell-command form: what follows
\* "!shell " on the message's first line.
CommandText(message) ==
    LET from == Len(ShellPrefix) + 1
        ends == {n \in from..(Len(message) + 1) :
                    /\ \A i \in from..(n - 1) : message[i] # NL
                    /\ n = Len(message) + 1 \/ message[n] = NL}
    IN  SubSeq(message, from, Max(ends) - 1)

\* C6: a ctrl-c message from an allowed sender, in any spelling and letter
\* case, also one that has the shell-command form, writes the single byte
\* 0x03 to the shell's input, flushed, and nothing else.
C6_CtrlCWritesInterruptByte ==
    [][(HandlesEvent /\ TextFromAllowed(lastEvent')
            /\ CtrlCForm(lastEvent'.content.body)) =>
        /\ lastWrite' = <<3>>
        /\ pinOut' = pinOut \o <<3>>
        /\ pinBuf' = <<>>
        /\ ~raised']_vars

\* C6's case has happened: "!Shell Ctrl+C", which has both forms, wrote 0x03.
C6_Witness ==
    /\ nEvents > 0
    /\ TextFromAllowed(lastEvent)
    /\ lastEvent.content.body = <<33, 83, 104, 101, 108, 108, 32, 67, 116, 114, 108, 43, 67>>
    /\ lastWrite = <<3>>
    /\ pinBuf = <<>>

\* C7: a message from an allowed sender of the shell-command form and not of
\* the ctrl-c form writes its command and one newline, flushed; one of neither
\* form writes nothing.
C7_ShellWritesCommandLine ==
    [][(HandlesEvent /\ TextFromAllowed(lastEvent')
            /\ ~CtrlCForm(lastEvent'.content.body)) =>
        IF ShellForm(lastEvent'.content.body)
        THEN /\ lastWrite' = CommandText(lastEvent'.content.body) \o <<NL>>
             /\ pinOut' = pinOut \o lastWrite'
             /\ pinBuf' = <<>>
             /\ ~raised'
        ELSE /\ lastWrite' = <<>>
             /\ pinOut' = pinOut
             /\ pinBuf' = pinBuf
             /\ ~raised']_vars

\* C7's case has happened: "!SHELL ls" wrote "ls\n" after an earlier write.
C7_Witness ==
    /\ nEvents > 0
    /\ TextFromAllowed(lastEvent)
    /\ lastEvent.content.body = <<33, 83, 72, 69, 76, 76, 32, 108, 115>>
    /\ lastWrite = <<108, 115, NL>>
    /\ Len(pinOut) > Len(lastWrite)
    /\ pinBuf = <<>>

\* C8: once the user has interrupted the main thread, wherever it was in the
\* loop, stop is set and the main thread has exited with status 0.
C8_InterruptStopsCleanly ==
    lastExc = "KeyboardInterrupt" =>
        /\ stop
        /\ sup = "exited"
        /\ exitCode = 0

\* C9: a timeout or a connection error of listen_forever neither sets stop
\* nor ends the main thread; the main thread sleeps, and unless the user
\* interrupts the sleep it then calls listen_forever again, however many
\* failures came before.
C9_TransientFailuresRetry ==
    /\ [][(sup = "listen" /\ sup' # "listen"
              /\ lastExc' \in {"Timeout", "ConnectionError"}) =>
            /\ Retrying(sup')
            /\ stop' = stop
            /\ exitCode' = -1]_vars
    /\ [][(Retrying(sup) /\ sup' # sup /\ lastExc' # "KeyboardInterrupt") =>
            /\ sup' = "listen"
            /\ stop' = stop
            /\ exitCode' = -1]_vars
    /\ (Retrying(sup) ~> (sup = "listen" \/ lastExc = "KeyboardInterrupt"))

\* C9's case has happened: listen_forever is being called again after two
\* failures in a row.
C9_Witness ==
    /\ failures >= 2
    /\ sup = "listen"
    /\ lastExc \in {"Timeout", "ConnectionError"}
    /\ ~stop
    /\ exitCode = -1

\* The main thread is in the loop of lines 191-203.
InListenLoop == sup = "listen" \/ Retrying(sup)

\* C11: when os.read fails in the relay thread, the thread ends and the main
\* thread's listen loop ends too, sooner or later.
C11_ReadErrorStopsProcess == (relay = "crashed") ~> ~InListenLoop

\* C12: an exception of listen_forever that no except clause takes is not
\* retried, and the process ends: the main thread has left its loop and the
\* relay thread stops too, sooner or later.
C12_FatalErrorStopsProcess ==
    (lastExc = "Other") ~> (~InListenLoop /\ relay # "running")

\* The code points of a text.
Codes(s) == [i \in 1..Len(s) |-> s[i].c]

\* C13: handle_escape_codes is idempotent: applied to its own result it
\* returns that result.
C13_StripIdempotent ==
    Len(passes) >= 2 => Codes(passes[2]) = Codes(passes[1])

\* event is an invitation of the bot: a membership event, of membership
\* invite, whose state_key is the bot's user id.
InvitesBot(event) ==
    /\ event.type = "m.room.member"
    /\ event.content.membership = "invite"
    /\ event.state_key = Bot

\* The invite state holds an invitation of the bot sent by an allowed user.
AllowedInvite(events) ==
    \E i \in 1..Len(events) :
        InvitesBot(events[i]) /\ events[i].sender \in AllowedUsers

HandlesInvite == nInvites' = nInvites + 1

\* C14: a room is added to the bot's rooms only by on_invite handling an
\* invitation of the bot by an allowed user, for the room of that invitation;
\* an invite state without such an invitation (sent by another user, or with
\* no invitation of the bot at all) makes on_invite join nothing and raise
\* nothing.
C14_JoinsOnlyOnAllowedInvite ==
    [][/\ \A r \in rooms' \ rooms :
            /\ HandlesInvite
            /\ lastInvite'.room_id = r
            /\ AllowedInvite(lastInvite'.events)
       /\ HandlesInvite /\ ~AllowedInvite(lastInvite'.events) =>
            /\ rooms' = rooms
            /\ lastJoin' = NoJoin
            /\ ~inviteRaised']_vars

\* on_invite has joined a room on an invite state whose first event is the
\* invitation of another user by a user who is not allowed.
C14_Witness ==
    /\ nInvites > 0
    /\ lastJoin \in rooms
    /\ Len(lastInvite.events) = 2
    /\ ~InvitesBot(lastInvite.events[1])
    /\ lastInvite.events[1].sender \notin AllowedUsers
    /\ AllowedInvite(lastInvite.events)

\* C15: with a room to send to in every cycle, buf never holds more than
\* MAX_STDOUT_PER_MSG bytes and one read: neither once the cycle's read is
\* appended (line 147) nor at the end of the cycle.
C15_BufferBounded ==
    [][rooms # {} =>
          /\ SumLen(buf) + (nread' - nread) <= MAX_STDOUT_PER_MSG + READ_SIZE
          /\ SumLen(buf') <= MAX_STDOUT_PER_MSG + READ_SIZE]_vars

\* C16: a cycle that flushes (the shell is idle and there is a room) leaves
\* no byte behind: afterwards buf is empty and the decoder keeps nothing back,
\* so every byte read so far has been put into a block.
C16_FlushLeavesNothingPending ==
    [][(call'.called /\ call'.flush) => (buf' = <<>> /\ decoder' = <<>>)]_vars

\* What the handling of event e is to write to the shell's input, as one unit.
InputUnit(e) ==
    IF ~TextFromAllowed(e) THEN <<>>
    ELSE IF CtrlCForm(e.content.body) THEN <<3>>
    ELSE IF ShellForm(e.content.body) THEN CommandText(e.content.body) \o <<NL>>
    ELSE <<>>

C18_ChunksWithinReadSize ==
    \A i \in 1..Len(buf) : Len(buf[i]) <= READ_SIZE

\* A step that is one cycle of the relay in which select found nothing to read.
IdleCycle ==
    /\ relay = "running" /\ relay' = "running"
    /\ nread' = nread /\ zeroReads' = zeroReads
    /\ rooms' = rooms /\ stop' = stop /\ sup' = sup

\* A step that is one cycle of the relay in which os.read returned.
ReadCycle ==
    /\ relay' = "running"
    /\ nread' > nread \/ zeroReads' > zeroReads

\* b is a with one more chunk, of n bytes, at its end.
OneChunkMore(a, b, n) ==
    /\ Len(b) = Len(a) + 1
    /\ SubSeq(b, 1, Len(a)) = a
    /\ Len(b[Len(b)]) = n

\* C19: a cycle that finds nothing to read, with something in buf and a room,
\* calls stdout_to_messages with flush=True on the whole of buf, sends the one
\* block it returns and ends with buf empty; a cycle that has read calls it
\* with flush=False; and a cycle with buf empty or with no room does not call
\* it, sends nothing and leaves buf as it is (with the chunk it has read).
C19_CycleDecision ==
    [][/\ IdleCycle =>
            IF buf # <<>> /\ rooms # {}
            THEN /\ call'.called /\ call'.flush
                 /\ Join(call'.fed) = Join(buf)
                 /\ out' = <<Decode(decoder, Join(buf)).text>>
                 /\ Len(delivered') = 1
                 /\ buf' = <<>>
            ELSE /\ ~call'.called
                 /\ out' = <<>> /\ delivered' = <<>>
                 /\ buf' = buf
       /\ ReadCycle =>
            IF rooms # {}
            THEN call'.called /\ ~call'.flush
            ELSE /\ ~call'.called
                 /\ out' = <<>> /\ delivered' = <<>>
                 /\ OneChunkMore(buf, buf', nread' - nread)]_vars

\* An idle cycle has flushed a buffer of more than one read as one block
\* that is not empty, and buf is empty.
C19_Witness ==
    /\ call.called /\ call.flush
    /\ Len(call.fed) = 1 /\ Len(call.fed[1]) > READ_SIZE
    /\ Len(delivered) = 1 /\ delivered[1] # <<>>
    /\ buf = <<>>
    /\ rooms # {}

\* What the relay thread works on: its locals and what it has read and sent.
relayWork == <<buf, decoder, nread, zeroReads, call, out, delivered, sentHigh>>

\* C20: once stop is set the relay thread ends, sooner or later; from the
\* moment stop is set it runs no further cycle, its only step being the return;
\* and it returns only with stop set or on a read of zero bytes.
C20_StopEndsRelay ==
    /\ (stop /\ relay = "running") ~> (relay = "done")
    /\ [][/\ stop => \/ UNCHANGED <<relay, relayWork>>
                     \/ relay = "running" /\ relay' = "done"
          /\ (relay = "running" /\ relay' = "done") =>
                (stop \/ zeroReads' > zeroReads)]_vars

\* The relay has read and sent output, stop was set and the thread has returned.
C20_Witness ==
    /\ stop
    /\ relay = "done"
    /\ nread > 0
    /\ sentHigh > 0

====
